---- MODULE Spec2Model ----
(***************************************************************************)
(* half-light: propagation of page-level "cross-root" CSS rules into open   *)
(* shadow roots (src/half-light.ts).                                        *)
(*                                                                          *)
(* Strings are sequences of one-character strings, so that the regular      *)
(* expression of parseMediaQuery is computed character by character.        *)
(* JavaScript's null match result is the empty tuple.                       *)
(***************************************************************************)
EXTENDS Integers, Sequences, FiniteSets, TLC

(* ------------------------------------------------------------------ *)
(* Bounds.                                                              *)
(* ------------------------------------------------------------------ *)

\* Condition strings given to parseMediaQuery are built from at most this many pieces.
MaxPieces == 4

\* Cap of the counter of consecutive sync passes.
MaxRun == 2

\* The maps handed to the Rule Extractor are built by at most this many earlier calls.
MaxCalls == 2

(* ------------------------------------------------------------------ *)
(* Strings.                                                             *)
(* ------------------------------------------------------------------ *)

\* The literal "--crossroot" of the regular expression.
MARKER == <<"-", "-", "c", "r", "o", "s", "s", "r", "o", "o", "t">>

\* The default selector "*".
UNIVERSAL == <<"*">>

SelA == <<".", "a">>
SelB == <<".", "b">>
SelNotA == <<":", "n", "o", "t", "(", ".", "a", ")">>

\* s[from..to], empty when from > to.
Slice(s, from, to) == [i \in 1..(to - from + 1) |-> s[from + i - 1]]

\* Whether literal lit occurs in s at position i.
OccursAt(lit, s, i) ==
    /\ i >= 1
    /\ i + Len(lit) - 1 <= Len(s)
    /\ \A j \in 1..Len(lit) : s[i + j - 1] = lit[j]

\* String.prototype.trim restricted to the blank the model's strings contain.
IsSpace(c) == c = " "

trim(s) ==
    LET keep == {i \in 1..Len(s) : ~IsSpace(s[i])}
    IN  IF keep = {} THEN <<>>
        ELSE LET lo == CHOOSE i \in keep : \A j \in keep : i <= j
                 hi == CHOOSE i \in keep : \A j \in keep : j <= i
             IN  Slice(s, lo, hi)

\* condition.match(/(?:--crossroot\({0,1})([^\)]*)/): the leftmost occurrence of the
\* literal, an optional "(", then every character up to the first ")" or the end.
\* The result is <<whole match, group 1>>, or <<>> for null.
regexMatch(condition) ==
    LET starts == {i \in 1..Len(condition) : OccursAt(MARKER, condition, i)}
    IN  IF starts = {} THEN <<>>
        ELSE LET i == CHOOSE k \in starts : \A j \in starts : k <= j
                 afterLit == i + Len(MARKER)
                 hasParen == afterLit <= Len(condition) /\ condition[afterLit] = "("
                 capFrom == IF hasParen THEN afterLit + 1 ELSE afterLit
                 closers == {k \in capFrom..Len(condition) : condition[k] = ")"}
                 capTo == IF closers = {} THEN Len(condition)
                          ELSE (CHOOSE k \in closers : \A j \in closers : k <= j) - 1
             IN  <<Slice(condition, i, capTo), Slice(condition, capFrom, capTo)>>

parseMediaQuery(condition) ==
    LET match == regexMatch(condition)
    IN  [isCrossRoot |-> condition = MARKER \/ match # <<>>,
         selector |-> IF match # <<>> /\ Len(match) = 2 /\ trim(match[2]) # <<>>
                      THEN match[2] ELSE UNIVERSAL]

(* ------------------------------------------------------------------ *)
(* The CSS object model: rules and the page's stylesheets.              *)
(* ------------------------------------------------------------------ *)

\* A CSSRule: its constructor name, its conditionText (absent: empty), its nested
\* cssRules and its serialisation cssText (an opaque text).
StyleRule(text) ==
    [type |-> "CSSStyleRule", conditionText |-> <<>>, cssRules |-> <<>>, cssText |-> text]

GroupRule(kind, cond, rules, text) ==
    [type |-> kind, conditionText |-> cond, cssRules |-> rules, cssText |-> text]

CondA == MARKER \o <<"(">> \o SelA \o <<")">>
CondB == MARKER \o <<"(">> \o SelB \o <<")">>
CondScreen == <<"s", "c", "r", "e", "e", "n">>

\* The stylesheets of the page, by identity.  owner is the element that owns the sheet
\* while it is attached: "style" is a child of head without the no-half-light
\* attribute, "style-no-half-light" a child of head with it, "body-style" a style
\* element below body.  Sheets 1, 3 and 4 are in the document when the script starts;
\* sheet 2 is inserted later.
SheetIds == {1, 2, 3, 4}

InitialSheets == {1, 3, 4}

Sheet(s) ==
    CASE s = 1 ->
           [owner |-> "style", mediaText |-> MARKER,
            cssRules |-> << StyleRule("r3"),
                            GroupRule("CSSMediaRule", CondA,
                                      <<StyleRule("r1"), StyleRule("r2")>>, "@media-a{r1 r2}"),
                            GroupRule("CSSSupportsRule", <<>>,
                                      << GroupRule("CSSMediaRule", CondB,
                                                   <<StyleRule("r5")>>, "@media-b{r5}") >>,
                                      "@supports{@media-b{r5}}") >>]
      [] s = 2 ->
           [owner |-> "style", mediaText |-> <<>>,
            cssRules |-> << GroupRule("CSSMediaRule", CondB,
                                      <<StyleRule("r4")>>, "@media-b{r4}"),
                            GroupRule("CSSMediaRule", CondScreen,
                                      <<StyleRule("r7")>>, "@media-screen{r7}") >>]
      [] s = 3 ->
           [owner |-> "style-no-half-light", mediaText |-> CondB,
            cssRules |-> << StyleRule("r6"),
                            GroupRule("CSSMediaRule", CondA,
                                      <<StyleRule("r9")>>, "@media-a{r9}") >>]
      [] OTHER ->
           [owner |-> "body-style", mediaText |-> MARKER,
            cssRules |-> << StyleRule("r8"),
                            GroupRule("CSSMediaRule", CondB,
                                      <<StyleRule("r10")>>, "@media-b{r10}") >>]

\* The classes of the elements that may become shadow hosts.
Hosts == {1, 2}

HostClasses(h) == IF h = 1 THEN {"a"} ELSE {"b"}

\* element.matches(selector) for the selectors the page's stylesheets name.
Matches(h, selector) ==
    CASE selector = UNIVERSAL -> TRUE
      [] selector = SelA -> "a" \in HostClasses(h)
      [] selector = SelB -> "b" \in HostClasses(h)
      [] OTHER -> FALSE

(* ------------------------------------------------------------------ *)
(* State.                                                               *)
(* ------------------------------------------------------------------ *)

VARIABLES
    ownerNode,               \* sheet -> "uncreated" | its owner element kind | "null" (removed)
    styleSheets,             \* main's const styleSheets = [...document.styleSheets]
    parentNode,              \* host -> the node it is a child of
    darkened,                \* host -> whether it has the darkened attribute or property
    shadowMode,              \* host -> "none" | "open" | "closed"
    adoptedStyleSheets,      \* host -> shadowRoot.adoptedStyleSheets
    stylableElements,        \* main's Set<Element>
    initialShadowRootStyles, \* main's WeakMap: a function on the hosts it has an entry for
    frameRequests,           \* the callbacks given to requestAnimationFrame, in request order
    observer,                \* "none" | "observing" | "disconnected"
    mutationRecords,         \* whether the observer has undelivered mutation records
    listening,               \* whether the DOMContentLoaded listener has been added
    domContentLoaded,        \* whether the DOMContentLoaded event has fired
    script,                  \* the const script of main's frame callback
    disableAttribute,        \* whether the bootstrapping script has disable-live-half-light
    syncRun,                 \* history: sync passes completed since the page last changed
    reportedDark,            \* history: hosts isInDarkRoot reported darkened in their frame
    firstFrameHosts,         \* history: hosts whose callbacks were requested before main's ran
    condition,               \* the string handed to parseMediaQuery
    mediaQueryResult,        \* what parseMediaQuery returned for it
    extractInput,            \* the map (with its sheets) handed to the Rule Extractor
    extractSelector,         \* the selector handed to it
    extractRules,            \* the rule list handed to it
    extractOutput            \* what it returned, with the sheets as they are afterwards

vars == <<ownerNode, styleSheets, parentNode, darkened, shadowMode, adoptedStyleSheets,
          stylableElements, initialShadowRootStyles, frameRequests, observer,
          mutationRecords, listening, domContentLoaded, script, disableAttribute,
          syncRun, reportedDark, firstFrameHosts, condition, mediaQueryResult,
          extractInput, extractSelector, extractRules, extractOutput>>

(* ------------------------------------------------------------------ *)
(* Rule Extractor.  A CrossRootStyles object is the sequence of its     *)
(* entries in key order; each entry names its CSSStyleSheet by its      *)
(* place in a heap of rule lists, because R.clone copies the object but *)
(* shares the CSSStyleSheet instances (they are not plain objects).     *)
(* ------------------------------------------------------------------ *)

createCrossRootStyles == <<>>

HasKey(styles, selector) == \E i \in 1..Len(styles) : styles[i].selector = selector

SheetOf(styles, selector) ==
    styles[CHOOSE i \in 1..Len(styles) : styles[i].selector = selector].sheet

\* st is [heap, styles]; insertRule without an index inserts at position 0.
addStyleRule(st, selector, rule) ==
    LET present == HasKey(st.styles, selector)
        heap1 == IF present THEN st.heap ELSE Append(st.heap, <<>>)
        updatedStyles == IF present THEN st.styles
                         ELSE Append(st.styles, [selector |-> selector, sheet |-> Len(heap1)])
        ref == SheetOf(updatedStyles, selector)
    IN  [heap |-> [heap1 EXCEPT ![ref] = <<rule.cssText>> \o @], styles |-> updatedStyles]

RECURSIVE processStyleSheet(_, _, _)
processStyleSheet(rules, selector, st) ==
    IF rules = <<>> THEN st
    ELSE processStyleSheet(Tail(rules), selector, addStyleRule(st, selector, Head(rules)))

\* The R.forEach over [...sheet.cssRules] of refreshCrossRootStyles.
RECURSIVE processNestedRules(_, _)
processNestedRules(rules, st) ==
    IF rules = <<>> THEN st
    ELSE LET rule == Head(rules)
             result == parseMediaQuery(rule.conditionText)
             next == IF rule.type = "CSSMediaRule" /\ result.isCrossRoot
                     THEN processStyleSheet(rule.cssRules, result.selector, st)
                     ELSE st
         IN  processNestedRules(Tail(rules), next)

\* A test that accepts every child of head, opted out or not.
OwnerMatchesAnyHeadChild(s) == ownerNode[s] \in {"style", "style-no-half-light"}

\* sheet.ownerNode.matches("head > :not([no-half-light])").
OwnerMatches(s) == ownerNode[s] = "style"

\* The reducer of refreshCrossRootStyles for one sheet.
scanSheet(st, s) ==
    IF ~OwnerMatches(s) THEN st
    ELSE LET result == parseMediaQuery(Sheet(s).mediaText)
             own == IF result.isCrossRoot
                    THEN processStyleSheet(Sheet(s).cssRules, result.selector, st)
                    ELSE st
         IN  processNestedRules(Sheet(s).cssRules, own)

RECURSIVE scanSheets(_, _)
scanSheets(sheets, st) ==
    IF sheets = <<>> THEN st
    ELSE scanSheets(Tail(sheets), scanSheet(st, Head(sheets)))

\* ownerNode of a removed sheet is null, and null.matches throws a TypeError.
refreshThrows(sheets) == \E i \in 1..Len(sheets) : ownerNode[sheets[i]] = "null"

refreshCrossRootStyles(sheets) ==
    scanSheets(sheets, [heap |-> <<>>, styles |-> createCrossRootStyles])

(* ------------------------------------------------------------------ *)
(* Stylesheet Compiler.  An adoptable sheet is [origin, key, layer]:    *)
(* layer holds the texts inside its "@layer --crossroot" block.         *)
(* ------------------------------------------------------------------ *)

CompiledSheet(selector, texts) == [origin |-> "half-light", key |-> selector, layer |-> texts]

ComponentSheet == [origin |-> "component", key |-> <<>>, layer |-> <<>>]

convertToCSSStyleSheets(st) ==
    [i \in 1..Len(st.styles) |->
        [selector |-> st.styles[i].selector,
         sheet |-> CompiledSheet(st.styles[i].selector, <<st.heap[st.styles[i].sheet][1]>>)]]

(* ------------------------------------------------------------------ *)
(* Apply and reset.                                                     *)
(* ------------------------------------------------------------------ *)

\* An application that puts each matching stylesheet in front of the list.
RECURSIVE applyCrossRootStylesInFront(_, _, _)
applyCrossRootStylesInFront(h, adopted, styleSheetMap) ==
    IF styleSheetMap = <<>> THEN adopted
    ELSE LET entry == Head(styleSheetMap)
             next == IF Matches(h, entry.selector) THEN <<entry.sheet>> \o adopted
                     ELSE adopted
         IN  applyCrossRootStylesInFront(h, next, Tail(styleSheetMap))

\* applyCrossRootStyles: the adopted list after the R.forEach over the map's keys.
RECURSIVE applyCrossRootStyles(_, _, _)
applyCrossRootStyles(h, adopted, styleSheetMap) ==
    IF styleSheetMap = <<>> THEN adopted
    ELSE LET entry == Head(styleSheetMap)
             next == IF Matches(h, entry.selector) THEN Append(adopted, entry.sheet)
                     ELSE adopted
         IN  applyCrossRootStyles(h, next, Tail(styleSheetMap))

\* initialShadowRootStyles.get(element) || [].
InitialStylesOf(h) ==
    IF h \in DOMAIN initialShadowRootStyles THEN initialShadowRootStyles[h] ELSE <<>>

\* A reset that forgets the recorded baseline.
clearShadowRootStylesToEmpty(h, initialStyleSheets) == <<>>

\* clearShadowRootStyles: the list the shadow root is reset to.
clearShadowRootStyles(h, initialStyleSheets) == initialStyleSheets

(* ------------------------------------------------------------------ *)
(* The DOM tree and the Dark-Root Detector.  A node is <<kind, n>>.     *)
(* ------------------------------------------------------------------ *)

Null == <<"null", 0>>
DocumentElement == <<"html", 0>>
Body == <<"body", 0>>
HostNode(h) == <<"host", h>>
ShadowRootOf(h) == <<"shadow", h>>

\* Node.parentElement: the parent when it is an Element; a shadow root is none.
parentElement(n) ==
    CASE n = Body -> DocumentElement
      [] n[1] = "host" -> IF parentNode[n[2]][1] = "shadow" THEN Null ELSE parentNode[n[2]]
      [] OTHER -> Null

\* A detector that answers false at a node without parent element that is no shadow root.
RECURSIVE isInDarkRootLightTop(_)
isInDarkRootLightTop(element) ==
    IF parentElement(element) # Null THEN isInDarkRootLightTop(parentElement(element))
    ELSE IF element[1] = "shadow"
         THEN IF darkened[element[2]] THEN TRUE
              ELSE isInDarkRootLightTop(HostNode(element[2]))
         ELSE FALSE

RECURSIVE isInDarkRoot(_)
isInDarkRoot(element) ==
    IF parentElement(element) # Null THEN isInDarkRoot(parentElement(element))
    ELSE IF element[1] = "shadow"
         THEN IF darkened[element[2]] THEN TRUE ELSE isInDarkRoot(HostNode(element[2]))
         ELSE element # DocumentElement /\ element[1] # "shadow"

(* ------------------------------------------------------------------ *)
(* main, wrapAttachShadow, initializeStyles, handleDOMContentLoaded.    *)
(* ------------------------------------------------------------------ *)

\* main's crossRootStyles: created once, handed to wrapAttachShadow, never reassigned.
mainCrossRootStyles == createCrossRootStyles

\* wrapAttachShadow's liveUpdateEnabled argument: main passes true.
liveUpdateEnabled == TRUE

\* document.styleSheets, in document order.
RECURSIVE Sorted(_)
Sorted(S) ==
    IF S = {} THEN <<>>
    ELSE LET m == CHOOSE x \in S : \A y \in S : x <= y
         IN  <<m>> \o Sorted(S \ {m})

documentStyleSheets == Sorted({s \in SheetIds : ownerNode[s] \notin {"uncreated", "null"}})

\* A delivered observer callback runs as a microtask, before any later task or frame.
MicrotaskDue == observer = "observing" /\ mutationRecords

Notify == IF observer = "observing" THEN TRUE ELSE mutationRecords

Bump(n) == IF n < MaxRun THEN n + 1 ELSE n

\* A pass that applies without resetting to the baseline first.
initializeStylesWithoutReset(sheets) ==
    LET crossRootStyles == refreshCrossRootStyles(sheets)
        styleSheetMap == convertToCSSStyleSheets(crossRootStyles)
    IN  [h \in Hosts |->
            IF h \in stylableElements
            THEN applyCrossRootStyles(h, adoptedStyleSheets[h], styleSheetMap)
            ELSE adoptedStyleSheets[h]]

\* initializeStyles: adoptedStyleSheets after the pass over Array.from(stylableElements).
initializeStyles(sheets) ==
    LET crossRootStyles == refreshCrossRootStyles(sheets)
        styleSheetMap == convertToCSSStyleSheets(crossRootStyles)
    IN  [h \in Hosts |->
            IF h \in stylableElements
            THEN applyCrossRootStyles(h, clearShadowRootStyles(h, InitialStylesOf(h)),
                                      styleSheetMap)
            ELSE adoptedStyleSheets[h]]

ParseIdle == /\ condition = <<>>
             /\ mediaQueryResult = <<>>

ExtractIdle == /\ extractInput = [heap |-> <<>>, styles |-> createCrossRootStyles]
               /\ extractSelector = <<>>
               /\ extractRules = <<>>
               /\ extractOutput = <<>>

\* The state when main() has returned: the snapshot of document.styleSheets is taken,
\* its frame callback is requested and attachShadow is wrapped.
Init ==
    /\ ownerNode = [s \in SheetIds |->
                       IF s \in InitialSheets THEN Sheet(s).owner ELSE "uncreated"]
    /\ styleSheets = Sorted(InitialSheets)
    /\ parentNode \in [Hosts -> {Null, Body}]
    /\ darkened = [h \in Hosts |-> FALSE]
    /\ shadowMode = [h \in Hosts |-> "none"]
    /\ adoptedStyleSheets = [h \in Hosts |-> <<>>]
    /\ stylableElements = {}
    /\ initialShadowRootStyles = <<>>
    /\ frameRequests = << <<"main", 0>> >>
    /\ observer = "none"
    /\ mutationRecords = FALSE
    /\ listening = FALSE
    /\ domContentLoaded = FALSE
    /\ script = "unset"
    /\ disableAttribute \in BOOLEAN
    /\ syncRun = 0
    /\ reportedDark = {}
    /\ firstFrameHosts = {}
    /\ ParseIdle
    /\ ExtractIdle

pageVars == <<ownerNode, parentNode, darkened, shadowMode>>
frameVars == <<observer, listening, script>>
extractVars == <<extractInput, extractSelector, extractRules, extractOutput>>
pureVars == <<condition, mediaQueryResult, extractVars>>
auxVars == <<reportedDark, firstFrameHosts, pureVars>>

(* ---- the page's own scripts ---- *)

\* A style element is inserted below head (or where its owner kind says).
AddStyleElement(s) ==
    /\ ownerNode[s] = "uncreated"
    /\ ownerNode' = [ownerNode EXCEPT ![s] = Sheet(s).owner]
    /\ mutationRecords' = Notify
    /\ syncRun' = 0
    /\ UNCHANGED <<styleSheets, parentNode, darkened, shadowMode, adoptedStyleSheets,
                   stylableElements, initialShadowRootStyles, frameRequests, frameVars,
                   domContentLoaded, disableAttribute, auxVars>>

\* A style element is removed: its sheet leaves document.styleSheets and its ownerNode
\* becomes null.  A sheet main never saw is forgotten: inserting the element again makes
\* a new sheet.
RemoveStyleElement(s) ==
    /\ ownerNode[s] = "style"
    /\ ownerNode' = [ownerNode EXCEPT
                        ![s] = IF s \in InitialSheets THEN "null" ELSE "uncreated"]
    /\ mutationRecords' = Notify
    /\ syncRun' = 0
    /\ UNCHANGED <<styleSheets, parentNode, darkened, shadowMode, adoptedStyleSheets,
                   stylableElements, initialShadowRootStyles, frameRequests, frameVars,
                   domContentLoaded, disableAttribute, auxVars>>

\* A mutation below head that changes no stylesheet (an attribute of a meta element).
NeutralHeadMutation ==
    /\ observer = "observing"
    /\ ~mutationRecords
    /\ mutationRecords' = TRUE
    /\ UNCHANGED <<pageVars, styleSheets, adoptedStyleSheets, stylableElements,
                   initialShadowRootStyles, frameRequests, frameVars, domContentLoaded,
                   disableAttribute, syncRun, auxVars>>

\* A host outside the document is inserted below body or into the shadow tree of a host
\* created before it.
InsertHost(h, p) ==
    /\ parentNode[h] = Null
    /\ p # Null
    /\ p[1] = "shadow" => /\ p[2] < h
                          /\ shadowMode[p[2]] # "none"
    /\ parentNode' = [parentNode EXCEPT ![h] = p]
    /\ syncRun' = 0
    /\ UNCHANGED <<ownerNode, styleSheets, darkened, shadowMode, adoptedStyleSheets,
                   stylableElements, initialShadowRootStyles, frameRequests, frameVars,
                   mutationRecords, domContentLoaded, disableAttribute, auxVars>>

\* The darkened attribute (or property) of a host is set.
SetDarkened(h) ==
    /\ ~darkened[h]
    /\ darkened' = [darkened EXCEPT ![h] = TRUE]
    /\ syncRun' = 0
    /\ UNCHANGED <<ownerNode, styleSheets, parentNode, shadowMode, adoptedStyleSheets,
                   stylableElements, initialShadowRootStyles, frameRequests, frameVars,
                   mutationRecords, domContentLoaded, disableAttribute, auxVars>>

\* A component adopts a stylesheet of its own in its shadow root.
AdoptComponentSheet(h) ==
    /\ shadowMode[h] # "none"
    /\ \A i \in 1..Len(adoptedStyleSheets[h]) : adoptedStyleSheets[h][i] # ComponentSheet
    /\ adoptedStyleSheets' =
          [adoptedStyleSheets EXCEPT ![h] = Append(@, ComponentSheet)]
    /\ syncRun' = 0
    /\ UNCHANGED <<pageVars, styleSheets, stylableElements, initialShadowRootStyles,
                   frameRequests, frameVars, mutationRecords, domContentLoaded,
                   disableAttribute, auxVars>>

(* ---- the program ---- *)

\* A wrapper that requests the frame callback whatever the mode.
AttachShadowAnyMode(h, mode) ==
    /\ shadowMode[h] = "none"
    /\ shadowMode' = [shadowMode EXCEPT ![h] = mode]
    /\ frameRequests' = Append(frameRequests, <<"host", h>>)
    /\ syncRun' = 0
    /\ UNCHANGED <<ownerNode, styleSheets, parentNode, darkened, adoptedStyleSheets,
                   stylableElements, initialShadowRootStyles, frameVars, mutationRecords,
                   domContentLoaded, disableAttribute, auxVars>>

\* A wrapper that judges, registers and records at the call instead of in a frame.
AttachShadowEager(h, mode) ==
    /\ shadowMode[h] = "none"
    /\ shadowMode' = [shadowMode EXCEPT ![h] = mode]
    /\ syncRun' = 0
    /\ IF mode # "open" \/ isInDarkRoot(ShadowRootOf(h))
       THEN UNCHANGED <<stylableElements, initialShadowRootStyles>>
       ELSE /\ stylableElements' = stylableElements \cup {h}
            /\ initialShadowRootStyles' =
                  [k \in DOMAIN initialShadowRootStyles \cup {h} |->
                      IF k = h THEN adoptedStyleSheets[h] ELSE initialShadowRootStyles[k]]
    /\ UNCHANGED <<ownerNode, styleSheets, parentNode, darkened, adoptedStyleSheets,
                   frameRequests, frameVars, mutationRecords, domContentLoaded,
                   disableAttribute, auxVars>>

\* The wrapped Element.prototype.attachShadow, called on a host without a shadow root.
AttachShadow(h, mode) ==
    /\ shadowMode[h] = "none"
    /\ shadowMode' = [shadowMode EXCEPT ![h] = mode]
    /\ frameRequests' = IF mode # "open" THEN frameRequests
                        ELSE Append(frameRequests, <<"host", h>>)
    /\ syncRun' = 0
    /\ UNCHANGED <<ownerNode, styleSheets, parentNode, darkened, adoptedStyleSheets,
                   stylableElements, initialShadowRootStyles, frameVars, mutationRecords,
                   domContentLoaded, disableAttribute, auxVars>>

\* A frame callback that goes on after a darkened report.
RegisterHostDespiteDark(h, dark) ==
    /\ stylableElements' = IF liveUpdateEnabled THEN stylableElements \cup {h}
                           ELSE stylableElements
    /\ initialShadowRootStyles' =
          [k \in DOMAIN initialShadowRootStyles \cup {h} |->
              IF k = h THEN adoptedStyleSheets[h] ELSE initialShadowRootStyles[k]]
    /\ adoptedStyleSheets' =
          [adoptedStyleSheets EXCEPT
              ![h] = applyCrossRootStyles(h, @, mainCrossRootStyles)]

\* The body of the frame callback wrapAttachShadow requested for host h, dark being
\* what isInDarkRoot(shadowRoot) returned.
RegisterHost(h, dark) ==
    IF dark
    THEN UNCHANGED <<stylableElements, initialShadowRootStyles, adoptedStyleSheets>>
    ELSE /\ stylableElements' = IF liveUpdateEnabled THEN stylableElements \cup {h}
                                ELSE stylableElements
         /\ initialShadowRootStyles' =
               [k \in DOMAIN initialShadowRootStyles \cup {h} |->
                   IF k = h THEN adoptedStyleSheets[h] ELSE initialShadowRootStyles[k]]
         /\ adoptedStyleSheets' =
               [adoptedStyleSheets EXCEPT
                   ![h] = applyCrossRootStyles(h, @, mainCrossRootStyles)]

\* The frame callback wrapAttachShadow requested for host h.
AttachShadowFrame(h) ==
    /\ ~MicrotaskDue
    /\ frameRequests # <<>>
    /\ Head(frameRequests) = <<"host", h>>
    /\ frameRequests' = Tail(frameRequests)
    /\ syncRun' = 0
    /\ reportedDark' = IF isInDarkRoot(ShadowRootOf(h)) THEN reportedDark \cup {h}
                       ELSE reportedDark
    /\ RegisterHost(h, isInDarkRoot(ShadowRootOf(h)))
    /\ UNCHANGED <<pageVars, styleSheets, frameVars, mutationRecords, domContentLoaded,
                   disableAttribute, firstFrameHosts, pureVars>>

\* The frame callback of main: the initial pass, then the observer and the listener.
\* When the pass throws, the rest of the callback does not run.  document.currentScript
\* is read here, in the callback: null unless the callback runs inside the script.
MainFrame ==
    /\ ~MicrotaskDue
    /\ frameRequests # <<>>
    /\ Head(frameRequests) = <<"main", 0>>
    /\ frameRequests' = Tail(frameRequests)
    /\ firstFrameHosts' = {h \in Hosts : \E i \in 1..Len(frameRequests) :
                                             frameRequests[i] = <<"host", h>>}
    /\ IF refreshThrows(styleSheets)
       THEN UNCHANGED <<adoptedStyleSheets, frameVars, syncRun>>
       ELSE /\ adoptedStyleSheets' = initializeStyles(styleSheets)
            /\ syncRun' = Bump(syncRun)
            /\ observer' = "observing"
            /\ script' \in {"null", "element"}
            /\ listening' = TRUE
    /\ UNCHANGED <<pageVars, styleSheets, stylableElements, initialShadowRootStyles,
                   mutationRecords, domContentLoaded, disableAttribute, reportedDark,
                   pureVars>>

\* The MutationObserver callback: initCallback.
ObserverCallback ==
    /\ MicrotaskDue
    /\ mutationRecords' = FALSE
    /\ IF refreshThrows(styleSheets)
       THEN UNCHANGED <<adoptedStyleSheets, syncRun>>
       ELSE /\ adoptedStyleSheets' = initializeStyles(styleSheets)
            /\ syncRun' = Bump(syncRun)
    /\ UNCHANGED <<pageVars, styleSheets, stylableElements, initialShadowRootStyles,
                   frameRequests, frameVars, domContentLoaded, disableAttribute, auxVars>>

\* The DOMContentLoaded event fires, once.  The listener exists only when main's frame
\* callback has added it; handleDOMContentLoaded throws on a null script.
DOMContentLoaded ==
    /\ ~MicrotaskDue
    /\ ~domContentLoaded
    /\ domContentLoaded' = TRUE
    /\ IF listening /\ script = "element" /\ disableAttribute
       THEN /\ observer' = "disconnected"
            /\ mutationRecords' = FALSE
            /\ stylableElements' = {}
            /\ syncRun' = 0
       ELSE UNCHANGED <<observer, mutationRecords, stylableElements, syncRun>>
    /\ UNCHANGED <<pageVars, styleSheets, adoptedStyleSheets, initialShadowRootStyles,
                   frameRequests, listening, script, disableAttribute, auxVars>>

Next ==
    \/ \E s \in SheetIds : AddStyleElement(s)
    \/ \E s \in SheetIds : RemoveStyleElement(s)
    \/ NeutralHeadMutation
    \/ \E h \in Hosts : \E p \in {Body} \cup {ShadowRootOf(k) : k \in Hosts} :
          InsertHost(h, p)
    \/ \E h \in Hosts : SetDarkened(h)
    \/ \E h \in Hosts : AdoptComponentSheet(h)
    \/ \E h \in Hosts : \E mode \in {"open", "closed"} : AttachShadow(h, mode)
    \/ \E h \in Hosts : AttachShadowFrame(h)
    \/ MainFrame
    \/ ObserverCallback
    \/ DOMContentLoaded

Spec == Init /\ [][Next]_vars

(* ------------------------------------------------------------------ *)
(* parseMediaQuery on its own: the condition is drawn from the strings  *)
(* made of at most MaxPieces pieces.                                    *)
(* ------------------------------------------------------------------ *)

Pieces == {MARKER, <<"(">>, <<")">>, <<" ">>, SelA, SelNotA}

RECURSIVE StringsOf(_)
StringsOf(n) ==
    IF n = 0 THEN {<<>>}
    ELSE LET shorter == StringsOf(n - 1)
         IN  shorter \cup {s \o piece : s \in shorter, piece \in Pieces}

ConditionStrings == StringsOf(MaxPieces)

\* The page at rest, for the specifications of the pure functions.
PageIdle ==
    /\ ownerNode = [s \in SheetIds |->
                       IF s \in InitialSheets THEN Sheet(s).owner ELSE "uncreated"]
    /\ styleSheets = Sorted(InitialSheets)
    /\ parentNode = [h \in Hosts |-> Null]
    /\ darkened = [h \in Hosts |-> FALSE]
    /\ shadowMode = [h \in Hosts |-> "none"]
    /\ adoptedStyleSheets = [h \in Hosts |-> <<>>]
    /\ stylableElements = {}
    /\ initialShadowRootStyles = <<>>
    /\ frameRequests = << <<"main", 0>> >>
    /\ observer = "none"
    /\ mutationRecords = FALSE
    /\ listening = FALSE
    /\ domContentLoaded = FALSE
    /\ script = "unset"
    /\ disableAttribute = FALSE
    /\ syncRun = 0
    /\ reportedDark = {}
    /\ firstFrameHosts = {}

systemVars == <<pageVars, styleSheets, adoptedStyleSheets, stylableElements,
                initialShadowRootStyles, frameRequests, frameVars, mutationRecords,
                domContentLoaded, disableAttribute, syncRun, reportedDark, firstFrameHosts>>

ParseInit ==
    /\ PageIdle
    /\ ExtractIdle
    /\ condition \in ConditionStrings
    /\ mediaQueryResult = <<>>

\* One call of parseMediaQuery; mediaQueryResult holds its result.
Parse ==
    /\ mediaQueryResult = <<>>
    /\ mediaQueryResult' = <<parseMediaQuery(condition)>>
    /\ UNCHANGED <<systemVars, condition, extractVars>>

ParseNext == Parse

SpecParse == ParseInit /\ [][ParseNext]_vars

(* ------------------------------------------------------------------ *)
(* The Rule Extractor on its own: the input map is one built by at most *)
(* MaxCalls earlier calls of addStyleRule.                              *)
(* ------------------------------------------------------------------ *)

ExtractSelectors == {UNIVERSAL, SelA, SelB}

ExtractRuleSet == {StyleRule("r1"), StyleRule("r2")}

RECURSIVE MapsOf(_)
MapsOf(n) ==
    IF n = 0 THEN {[heap |-> <<>>, styles |-> createCrossRootStyles]}
    ELSE LET smaller == MapsOf(n - 1)
         IN  smaller \cup {addStyleRule(st, selector, rule) :
                               st \in smaller, selector \in ExtractSelectors,
                               rule \in ExtractRuleSet}

ExtractInit ==
    /\ PageIdle
    /\ ParseIdle
    /\ extractInput \in MapsOf(MaxCalls)
    /\ extractSelector \in ExtractSelectors
    /\ extractRules \in {<<r>> : r \in ExtractRuleSet}
                        \cup {<<r, q>> : r \in ExtractRuleSet, q \in ExtractRuleSet}
    /\ extractOutput = <<>>

\* One call of addStyleRule with the first rule of the list.
CallAddStyleRule ==
    /\ extractOutput = <<>>
    /\ extractOutput' = <<addStyleRule(extractInput, extractSelector, Head(extractRules))>>
    /\ UNCHANGED <<systemVars, condition, mediaQueryResult, extractInput, extractSelector,
                   extractRules>>

\* One call of processStyleSheet with the whole list.
CallProcessStyleSheet ==
    /\ extractOutput = <<>>
    /\ extractOutput' = <<processStyleSheet(extractRules, extractSelector, extractInput)>>
    /\ UNCHANGED <<systemVars, condition, mediaQueryResult, extractInput, extractSelector,
                   extractRules>>

ExtractNext == CallAddStyleRule \/ CallProcessStyleSheet

SpecExtract == ExtractInit /\ [][ExtractNext]_vars

(* ------------------------------------------------------------------ *)
(* Claims about the Rule Extractor.                                     *)
(* ------------------------------------------------------------------ *)

\* C11: after addStyleRule or processStyleSheet returns, the input map has the keys it
\* had and each of its accumulator stylesheets holds the rules it held before the call.
C11_InputMapUntouched ==
    extractOutput # <<>> =>
        \A i \in 1..Len(extractInput.styles) :
            extractOutput[1].heap[extractInput.styles[i].sheet]
                = extractInput.heap[extractInput.styles[i].sheet]

(* ------------------------------------------------------------------ *)
(* Claims about the Marker Parser.                                      *)
(* ------------------------------------------------------------------ *)

\* The positions at which the marker token occurs in s.
MarkerStarts(s) == {i \in 1..Len(s) : OccursAt(MARKER, s, i)}

\* The position of the ")" that closes the "(" at position open of s, or 0.
RECURSIVE ClosingParen(_, _, _)
ClosingParen(s, i, depth) ==
    IF i > Len(s) THEN 0
    ELSE IF s[i] = "(" THEN ClosingParen(s, i + 1, depth + 1)
    ELSE IF s[i] = ")" THEN (IF depth = 1 THEN i ELSE ClosingParen(s, i + 1, depth - 1))
    ELSE ClosingParen(s, i + 1, depth)

\* Whether the marker at position i of s is followed by a parenthesised argument list.
HasArgumentList(s, i) ==
    /\ i + Len(MARKER) <= Len(s)
    /\ s[i + Len(MARKER)] = "("
    /\ ClosingParen(s, i + Len(MARKER), 0) # 0

\* The argument of the marker at position i of s.
ArgumentOf(s, i) ==
    Slice(s, i + Len(MARKER) + 1, ClosingParen(s, i + Len(MARKER), 0) - 1)

\* C8: parseMediaQuery reports isCrossRoot exactly for the strings that are the token
\* --crossroot or contain it followed by a parenthesised argument list.
C8_CrossRootExactly ==
    mediaQueryResult # <<>> =>
        (mediaQueryResult[1].isCrossRoot <=>
            \/ condition = MARKER
            \/ \E i \in MarkerStarts(condition) : HasArgumentList(condition, i))

\* C9: for a condition that is the token, or whose token is followed by a parenthesised
\* argument list, the selector is that argument when it is not blank, and * otherwise.
C9_SelectorIsArgument ==
    (/\ mediaQueryResult # <<>>
     /\ MarkerStarts(condition) # {}
     /\ LET i == CHOOSE k \in MarkerStarts(condition) :
                    \A j \in MarkerStarts(condition) : k <= j
        IN  condition = MARKER \/ HasArgumentList(condition, i))
    => LET i == CHOOSE k \in MarkerStarts(condition) :
                    \A j \in MarkerStarts(condition) : k <= j
           argument == IF HasArgumentList(condition, i) THEN ArgumentOf(condition, i) ELSE <<>>
       IN  mediaQueryResult[1].selector =
               IF trim(argument) # <<>> THEN argument ELSE UNIVERSAL

(* ------------------------------------------------------------------ *)
(* Claims about the pipeline.                                           *)
(* ------------------------------------------------------------------ *)

\* The selectors of the cross-root rules the document's stylesheets hold now that
\* host h matches.
SelectorsFor(h) ==
    LET styles == refreshCrossRootStyles(documentStyleSheets).styles
    IN  {styles[i].selector : i \in {j \in 1..Len(styles) : Matches(h, styles[j].selector)}}

\* Whether the shadow root of h has adopted a compiled stylesheet for selector.
HasCompiled(h, selector) ==
    \E i \in 1..Len(adoptedStyleSheets[h]) :
        /\ adoptedStyleSheets[h][i].origin = "half-light"
        /\ adoptedStyleSheets[h][i].key = selector

\* The maps of the sync pass over main's styleSheets.
PassStyles == refreshCrossRootStyles(styleSheets)
PassMap == convertToCSSStyleSheets(PassStyles)

Range(f) == {f[i] : i \in DOMAIN f}

\* C1: when the frame callback of an attachShadow call on a host outside any darkened
\* subtree has run, the shadow root has adopted the compiled stylesheet of every
\* selector the host matches among the cross-root rules of the page at that moment.
C1_AttachAdoptsCurrentStyles ==
    [][\A h \in Hosts :
          (AttachShadowFrame(h) /\ ~isInDarkRoot(ShadowRootOf(h)))
          => \A selector \in SelectorsFor(h) : HasCompiled(h, selector)']_vars

\* C2: after a sync pass, every tracked host matching a selector of the compiled map has
\* adopted a stylesheet holding exactly the rules extracted for that selector in the pass.
C2_CompiledHoldsAllRules ==
    syncRun >= 1 =>
        \A h \in stylableElements : \A i \in 1..Len(PassStyles.styles) :
            LET entry == PassStyles.styles[i]
                extracted == PassStyles.heap[entry.sheet]
            IN  Matches(h, entry.selector) =>
                    \E k \in 1..Len(adoptedStyleSheets[h]) :
                        LET sheet == adoptedStyleSheets[h][k]
                        IN  /\ sheet.origin = "half-light"
                            /\ sheet.key = entry.selector
                            /\ Len(sheet.layer) = Len(extracted)
                            /\ Range(sheet.layer) = Range(extracted)

\* C3: after N >= 1 consecutive sync passes over unchanged stylesheets, the adopted list
\* of every tracked host is as long as its baseline plus the number of selectors of the
\* compiled map it matches.
C3_ResetBeforeApply ==
    \A n \in 1..MaxRun :
        syncRun = n =>
            \A h \in stylableElements :
                Len(adoptedStyleSheets[h]) =
                    Len(InitialStylesOf(h))
                    + Cardinality({i \in 1..Len(PassMap) : Matches(h, PassMap[i].selector)})

C3_Witness ==
    /\ syncRun = MaxRun
    /\ \E h \in stylableElements :
          /\ Len(InitialStylesOf(h)) >= 1
          /\ Cardinality({i \in 1..Len(PassMap) : Matches(h, PassMap[i].selector)}) >= 2
          /\ Len(adoptedStyleSheets[h]) >= 3

\* C4: a sync pass run right after a sync pass, with no change of the page in between,
\* leaves every host with the adopted stylesheets it already has.
C4_Idempotent ==
    syncRun >= 1 => initializeStyles(styleSheets) = adoptedStyleSheets

C4_Witness ==
    /\ syncRun >= 2
    /\ \E h \in stylableElements :
          /\ InitialStylesOf(h) # <<>>
          /\ Len(adoptedStyleSheets[h]) > Len(InitialStylesOf(h))

\* C5: a host whose shadow root the detector reported darkened in its frame callback is
\* never in the Stylable-Elements Set, has no baseline entry and never holds a
\* propagated stylesheet.
C5_DarkRootExcluded ==
    \A h \in reportedDark :
        /\ h \notin stylableElements
        /\ h \notin DOMAIN initialShadowRootStyles
        /\ \A i \in 1..Len(adoptedStyleSheets[h]) :
              adoptedStyleSheets[h][i].origin # "half-light"

C5_Witness ==
    /\ syncRun >= 1
    /\ \E h \in reportedDark : \E k \in stylableElements :
          /\ darkened[h]
          /\ parentNode[h] = Body
          /\ adoptedStyleSheets[h] # <<>>
          /\ HasCompiled(k, UNIVERSAL)

\* The hosts whose shadow trees enclose host h, innermost first, h included.
RECURSIVE HostChain(_)
HostChain(h) ==
    IF parentNode[h][1] = "shadow" THEN <<h>> \o HostChain(parentNode[h][2]) ELSE <<h>>

\* C6: for a shadow root whose host lies inside enclosing shadow roots, with the
\* outermost host below the document element, isInDarkRoot is true exactly when some
\* host of the chain carries the darkened marker.
C6_CrossesShadowBoundaries ==
    \A h \in Hosts :
        LET chain == HostChain(h)
        IN  (/\ shadowMode[h] = "open"
             /\ Len(chain) >= 2
             /\ parentNode[chain[Len(chain)]] = Body)
            => (isInDarkRoot(ShadowRootOf(h)) <=> \E i \in 1..Len(chain) : darkened[chain[i]])

\* C7: when DOMContentLoaded has fired with the disable attribute on the script (and the
\* script reference is not null), the observer no longer observes, whether the event
\* fired before or after main's frame callback.
C7_OptOutStopsObserver ==
    (domContentLoaded /\ disableAttribute /\ script # "null") => observer # "observing"

\* C10: after a sync pass triggered by a mutation of head, every tracked host has adopted
\* a compiled stylesheet for every selector it matches among the cross-root rules of the
\* stylesheets attached to the document at the time of the pass.
C10_PassReadsCurrentSheets ==
    syncRun >= 1 =>
        \A h \in stylableElements : \A selector \in SelectorsFor(h) : HasCompiled(h, selector)

(* ------------------------------------------------------------------ *)
(* Claims about the attachShadow wrapper.                               *)
(* ------------------------------------------------------------------ *)

\* Whether a frame callback for host h is waiting.
FrameRequested(h) == \E i \in 1..Len(frameRequests) : frameRequests[i] = <<"host", h>>

\* Whether the shadow root of h has adopted a stylesheet compiled by a sync pass.
HasSystemSheet(h) ==
    \E i \in 1..Len(adoptedStyleSheets[h]) : adoptedStyleSheets[h][i].origin = "half-light"

\* C12: a host whose shadow root was attached with a mode other than open has no frame
\* callback waiting, is not in the Stylable-Elements Set, has no baseline, and its
\* adopted list holds no stylesheet put there by a sync pass or a frame callback.
C12_NonOpenPassesThrough ==
    \A h \in Hosts :
        shadowMode[h] = "closed" =>
            /\ ~FrameRequested(h)
            /\ h \notin stylableElements
            /\ h \notin DOMAIN initialShadowRootStyles
            /\ ~HasSystemSheet(h)

\* A closed host below body that matches rules of the page, after a sync pass that gave
\* the other, tracked host its compiled stylesheet.
C12_Witness ==
    /\ shadowMode[1] = "closed"
    /\ parentNode[1] = Body
    /\ adoptedStyleSheets[1] = <<ComponentSheet>>
    /\ 2 \in stylableElements
    /\ HasCompiled(2, UNIVERSAL)
    /\ syncRun >= 1
    /\ frameRequests = <<>>

(* ------------------------------------------------------------------ *)
(* Claims about sync passes.                                            *)
(* ------------------------------------------------------------------ *)

\* The texts of the cross-root rules of the stylesheets now in the document.
PresentRuleTexts ==
    LET heap == refreshCrossRootStyles(documentStyleSheets).heap
    IN  UNION {Range(heap[i]) : i \in DOMAIN heap}

\* C13: when the observer callback for a mutation of head has run, no tracked host has
\* an adopted compiled stylesheet holding a rule that is no longer in the document (the
\* callback leaves the document's stylesheets as they are).
C13_RemovedRuleLeavesHosts ==
    [][ObserverCallback =>
          \A h \in stylableElements' :
              \A i \in 1..Len(adoptedStyleSheets'[h]) :
                  adoptedStyleSheets'[h][i].origin = "half-light"
                  => Range(adoptedStyleSheets'[h][i].layer) \subseteq PresentRuleTexts]_vars

\* The texts of the rules of a rule list, at any depth.
RECURSIVE TextsOf(_)
TextsOf(rules) ==
    IF rules = <<>> THEN {}
    ELSE {Head(rules).cssText} \cup TextsOf(Head(rules).cssRules) \cup TextsOf(Tail(rules))

\* The texts held by the accumulator stylesheets of an extraction.
HeapTexts(st) == UNION {Range(st.heap[i]) : i \in DOMAIN st.heap}

\* The stylesheets of main's list whose owner is not a child of head without the
\* no-half-light attribute.
SkippedSheets == {s \in Range(styleSheets) : ownerNode[s] \in {"style-no-half-light", "body-style"}}

\* C14: no rule of a stylesheet whose owner is not a direct child of head, or carries
\* no-half-light, is in the Cross-Root Style Map of a pass or in a stylesheet a pass
\* gave to a host, whatever the sheet's media text and nested rule groups say.
C14_SkippedSheetsContributeNothing ==
    \A s \in SkippedSheets :
        /\ TextsOf(Sheet(s).cssRules) \cap HeapTexts(PassStyles) = {}
        /\ \A h \in Hosts : \A i \in 1..Len(adoptedStyleSheets[h]) :
               TextsOf(Sheet(s).cssRules) \cap Range(adoptedStyleSheets[h][i].layer) = {}

\* A completed pass over a list holding both kinds of skipped sheet, whose cross-root
\* conditions name the universal selector and .b, with the .b host tracked.
C14_Witness ==
    /\ SkippedSheets = {3, 4}
    /\ syncRun >= 1
    /\ 2 \in stylableElements
    /\ HasCompiled(2, UNIVERSAL)
    /\ ~HasCompiled(2, SelB)
    /\ PassStyles.styles # <<>>

(* ------------------------------------------------------------------ *)
(* Claims about startup.                                                *)
(* ------------------------------------------------------------------ *)

\* The selectors of the map of the pass over main's list that host h matches.
PassSelectorsFor(h) ==
    {PassMap[i].selector : i \in {j \in 1..Len(PassMap) : Matches(h, PassMap[j].selector)}}

\* C15: when the frame callback of a host whose open shadow root was attached before
\* main's frame callback ran has run, and the host is not reported darkened, the host
\* has adopted the compiled stylesheet of every selector of the pass that it matches.
C15_FirstFrameCoversEarlyHosts ==
    [][\A h \in firstFrameHosts :
          (AttachShadowFrame(h) /\ ~isInDarkRoot(ShadowRootOf(h)))
          => \A selector \in PassSelectorsFor(h) : HasCompiled(h, selector)']_vars

(* ------------------------------------------------------------------ *)
(* Claims about the opt-out.                                            *)
(* ------------------------------------------------------------------ *)

\* C16: once the opt-out has been honoured (observer disconnected, set cleared), the
\* Stylable-Elements Set stays empty: a host whose shadow root is attached afterwards
\* is not added to it.
C16_OptOutKeepsSetEmpty ==
    observer = "disconnected" => stylableElements = {}

(* ------------------------------------------------------------------ *)
(* Claims about nested rule groups.                                     *)
(* ------------------------------------------------------------------ *)

\* The rule groups of a rule list, at any depth, whose own condition text is cross-root.
RECURSIVE CrossRootGroups(_)
CrossRootGroups(rules) ==
    IF rules = <<>> THEN {}
    ELSE LET rule == Head(rules)
             own == IF rule.cssRules # <<>> /\ parseMediaQuery(rule.conditionText).isCrossRoot
                    THEN {rule} ELSE {}
         IN  own \cup CrossRootGroups(rule.cssRules) \cup CrossRootGroups(Tail(rules))

\* The texts in the accumulator stylesheet of selector, none when the map lacks the key.
AccumulatorTexts(st, selector) ==
    IF HasKey(st.styles, selector) THEN Range(st.heap[SheetOf(st.styles, selector)]) ELSE {}

\* C17: after a pass, for every stylesheet it scanned, the rules of every rule group whose own
\* condition text is cross-root are in the accumulator of the group's selector, at the
\* top level of the stylesheet and inside rule groups of another conditional kind.
C17_NestedGroupsExtracted ==
    \A s \in Range(styleSheets) :
        (syncRun >= 1 /\ OwnerMatches(s)) =>
            \A group \in CrossRootGroups(Sheet(s).cssRules) :
                \A i \in 1..Len(group.cssRules) :
                    group.cssRules[i].cssText
                        \in AccumulatorTexts(PassStyles,
                                             parseMediaQuery(group.conditionText).selector)

(* ------------------------------------------------------------------ *)
(* Claims about the deferral of the interceptor.                        *)
(* ------------------------------------------------------------------ *)

\* C18: the step in which a host gets an open shadow root leaves the Stylable-Elements
\* Set, the baseline table and the adopted lists as they are and leaves a frame callback
\* waiting; the step in which that callback runs judges the host by the tree and the
\* markers of that moment, and, when the host is not darkened, registers it and records
\* as its baseline the adopted list of that moment.
C18_InterceptorDeferred ==
    [][\A h \in Hosts :
          /\ (shadowMode[h] = "none" /\ shadowMode'[h] = "open")
             => /\ stylableElements' = stylableElements
                /\ initialShadowRootStyles' = initialShadowRootStyles
                /\ adoptedStyleSheets' = adoptedStyleSheets
                /\ FrameRequested(h)'
          /\ (FrameRequested(h) /\ ~FrameRequested(h)')
             => IF isInDarkRoot(ShadowRootOf(h))
                THEN /\ h \notin stylableElements'
                     /\ h \notin DOMAIN initialShadowRootStyles'
                     /\ adoptedStyleSheets'[h] = adoptedStyleSheets[h]
                ELSE /\ h \in stylableElements'
                     /\ h \in DOMAIN initialShadowRootStyles'
                     /\ initialShadowRootStyles'[h] = adoptedStyleSheets[h]]_vars

\* Host 1 adopted a stylesheet of its own between the call and the frame and has it as
\* its baseline; host 2, below body, was judged darkened in its frame and is not tracked.
C18_Witness ==
    /\ 1 \in stylableElements
    /\ initialShadowRootStyles[1] = <<ComponentSheet>>
    /\ shadowMode[2] = "open"
    /\ parentNode[2] = Body
    /\ darkened[2]
    /\ 2 \in reportedDark
    /\ 2 \notin stylableElements
    /\ frameRequests = <<>>

(* ------------------------------------------------------------------ *)
(* Claims about the walk of the Dark-Root Detector.                     *)
(* ------------------------------------------------------------------ *)

\* The nodes of the page: the document element, body, the hosts and their shadow roots.
Nodes ==
    {DocumentElement, Body} \cup {HostNode(h) : h \in Hosts}
        \cup {ShadowRootOf(h) : h \in {k \in Hosts : shadowMode[k] # "none"}}

\* The node the recursive call of isInDarkRoot(n) is made on, Null when it makes none.
DarkStep(n) ==
    IF parentElement(n) # Null THEN parentElement(n)
    ELSE IF n[1] = "shadow" /\ ~darkened[n[2]] THEN HostNode(n[2])
    ELSE Null

\* The nodes isInDarkRoot(n) is called on, one after the other, at most fuel steps.
RECURSIVE DarkWalk(_, _)
DarkWalk(n, fuel) ==
    IF DarkStep(n) = Null \/ fuel = 0 THEN <<n>>
    ELSE <<n>> \o DarkWalk(DarkStep(n), fuel - 1)

\* C19: from every node the walk of isInDarkRoot visits no node twice and makes its last
\* call within as many steps as there are nodes; each step goes to the parent element or
\* from a shadow root to its host; the walk ends at a shadow root whose host carries the
\* darkened marker with true, at the document element with false, or at another node
\* without parent element that is no shadow root with true.
C19_WalkTerminates ==
    \A n \in Nodes :
        LET walk == DarkWalk(n, Cardinality(Nodes))
            last == walk[Len(walk)]
        IN  /\ DarkStep(last) = Null
            /\ \A i, j \in 1..Len(walk) : i # j => walk[i] # walk[j]
            /\ \A i \in 1..(Len(walk) - 1) :
                   \/ walk[i + 1] = parentElement(walk[i])
                   \/ walk[i][1] = "shadow" /\ walk[i + 1] = HostNode(walk[i][2])
            /\ last[1] = "shadow" => darkened[last[2]] /\ isInDarkRoot(n)
            /\ last = DocumentElement => ~isInDarkRoot(n)
            /\ (last[1] # "shadow" /\ last # DocumentElement) => isInDarkRoot(n)

\* Host 2 sits at the top of the shadow tree of host 1, which is below body; neither is
\* darkened, and the frame callback of host 2 has had isInDarkRoot walk from its shadow
\* root to the host, where the walk ended with true.
C19_Witness ==
    /\ parentNode[1] = Body
    /\ parentNode[2] = ShadowRootOf(1)
    /\ shadowMode[2] = "open"
    /\ ~darkened[1]
    /\ ~darkened[2]
    /\ 2 \in reportedDark
    /\ DarkWalk(ShadowRootOf(2), Cardinality(Nodes)) = <<ShadowRootOf(2), HostNode(2)>>

(* ------------------------------------------------------------------ *)
(* Claims about the baseline.                                           *)
(* ------------------------------------------------------------------ *)

\* The compiled stylesheets of the pass whose selector host h matches, in the order of
\* the map's keys.
MatchingSheets(h) ==
    LET picked == SelectSeq(PassMap, LAMBDA entry : Matches(h, entry.selector))
    IN  [i \in 1..Len(picked) |-> picked[i].sheet]

\* C20: every host of the Stylable-Elements Set has a baseline, which holds no compiled
\* stylesheet of a pass; and after a sync pass its adopted list is that baseline, in
\* order, followed by the compiled stylesheets of the selectors it matches, in the order
\* of the map's keys.
C20_AdoptedIsBaselinePlusCompiled ==
    \A h \in stylableElements :
        /\ h \in DOMAIN initialShadowRootStyles
        /\ \A i \in 1..Len(InitialStylesOf(h)) :
               InitialStylesOf(h)[i].origin # "half-light"
        /\ syncRun >= 1 =>
               adoptedStyleSheets[h] = InitialStylesOf(h) \o MatchingSheets(h)

\* After a pass, host 1 holds its own stylesheet, recorded as its baseline, followed by
\* the compiled stylesheets for * and for .a.
C20_Witness ==
    /\ syncRun >= 1
    /\ 1 \in stylableElements
    /\ initialShadowRootStyles[1] = <<ComponentSheet>>
    /\ Len(adoptedStyleSheets[1]) = 3
    /\ adoptedStyleSheets[1][1] = ComponentSheet
    /\ adoptedStyleSheets[1][2].key = UNIVERSAL
    /\ adoptedStyleSheets[1][3].key = SelA

====
